---------------------------- MODULE Spec2Model ----------------------------
(***************************************************************************)
(* A model of htcondenser/exe/DAGstatus.py: the line tokenizer             *)
(* (interpret_line), the block parser (process), the table printer         *)
(* (print_table) and the command line's loop over the status files.        *)
(*                                                                         *)
(* A Python str is a sequence of one-character strings.  None is the       *)
(* empty sequence <<>> and an object obj is <<obj>>.  An exception is a    *)
(* record [type, args, at]: its class, its args tuple and the source line  *)
(* that raises it.                                                         *)
(***************************************************************************)
EXTENDS Naturals, Integers, Sequences, FiniteSets, TLC

VARIABLES
    nfiles,          \* len(args.statusFile)
    summary,         \* args.summary
    fileIdx,         \* index of the file the loop of line 349 is at (0: none yet)
    pc,              \* position of the program
    sfile,           \* the open file: the ids of the blocks it holds
    lineno,          \* number of lines of sfile the for loop has consumed
    line,            \* the loop variable of line 177 / the argument of interpret_line
    line_parsed,     \* the last result of interpret_line (line 220)
    contents,        \* the accumulation mapping: key -> Line
    store_contents,  \* the accumulation flag
    dag_status,      \* None or the DagStatus object
    node_statuses,   \* the list of NodeStatus objects
    status_end,      \* None or the StatusEnd object
    stdout,          \* what has been printed so far
    exc,             \* None or the uncaught exception that ended the program
    closed           \* history: the mapping of every block close that dispatched

vars == <<nfiles, summary, fileIdx, pc, sfile, lineno, line, line_parsed, contents,
          store_contents, dag_status, node_statuses, status_end, stdout, exc, closed>>

None == <<>>

Exception(type, args, at) == [type |-> type, args |-> args, at |-> at]

(***************************************************************************)
(* Bounds of the model.                                                    *)
(***************************************************************************)
MaxFiles == 2      \* status files on the command line
MaxBlocks == 2     \* blocks in one status file
MaxRawLen == 6     \* length of an arbitrary tokenizer input
MaxKeyLen == 2     \* length of K in a shaped tokenizer input
MaxValLen == 3     \* length of V and of C in a shaped tokenizer input

\* the function f itself, held as an explicit table of its values
Table(f) == f @@ <<>>

\* the sequences over S of length at most n
SeqsUpTo(S, n) == UNION {[1..m -> S] : m \in 0..n}

(***************************************************************************)
(* Python str methods.                                                     *)
(***************************************************************************)
Whitespace == {" ", "\t", "\n"}

\* the first index i..Len(s) that holds no blank, or Len(s) + 1
RECURSIVE SkipBlanks(_, _)
SkipBlanks(s, i) == IF i <= Len(s) /\ s[i] \in Whitespace THEN SkipBlanks(s, i + 1) ELSE i

\* the last index 1..i that holds no blank, or 0
RECURSIVE SkipBlanksBack(_, _)
SkipBlanksBack(s, i) == IF i >= 1 /\ s[i] \in Whitespace THEN SkipBlanksBack(s, i - 1) ELSE i

lstrip(s) == SubSeq(s, SkipBlanks(s, 1), Len(s))

rstrip(s) == SubSeq(s, 1, SkipBlanksBack(s, Len(s)))

strip(s) == rstrip(lstrip(s))

\* s[i..] begins with prefix
StartsAt(s, i, prefix) ==
    /\ i + Len(prefix) - 1 <= Len(s)
    /\ \A k \in DOMAIN prefix : s[i + k - 1] = prefix[k]

startswith(s, prefix) == StartsAt(s, 1, prefix)

\* the first index i..Len(s) that holds ch, or Len(s) + 1
RECURSIVE Find(_, _, _)
Find(s, ch, i) == IF i <= Len(s) /\ s[i] # ch THEN Find(s, ch, i + 1) ELSE i

\* `ch in s` for a one-character ch
contains(s, ch) == Find(s, ch, 1) <= Len(s)

\* s.replace(old, new) for a non-empty old: the non-overlapping occurrences, left to
\* right
RECURSIVE ReplaceFrom(_, _, _, _)
ReplaceFrom(s, old, new, i) ==
    IF i > Len(s) THEN <<>>
    ELSE IF StartsAt(s, i, old) THEN new \o ReplaceFrom(s, old, new, i + Len(old))
    ELSE <<s[i]>> \o ReplaceFrom(s, old, new, i + 1)

replace(s, old, new) == ReplaceFrom(s, old, new, 1)

\* s.split(sep) for a one-character sep
RECURSIVE SplitFrom(_, _, _)
SplitFrom(s, sep, i) ==
    LET j == Find(s, sep, i)
    IN  IF j > Len(s) THEN <<SubSeq(s, i, Len(s))>>
        ELSE <<SubSeq(s, i, j - 1)>> \o SplitFrom(s, sep, j + 1)

split(s, sep) == SplitFrom(s, sep, 1)

(***************************************************************************)
(* strip_comments, strip_doublequotes, Line, interpret_line.               *)
(***************************************************************************)
strip_comments_keep_close(ln) == strip(replace(ln, <<"/", "*">>, <<>>))

strip_comments(ln) ==
    strip(replace(replace(ln, <<"/", "*">>, <<>>), <<"*", "/">>, <<>>))

strip_doublequotes(ln) == replace(ln, <<"\"">>, <<>>)

Line(key, value, comment) == [key |-> key, value |-> value, comment |-> comment]

\* What a call returns: the value, or the exception it raises.
Return(v) == [ret |-> <<v>>, exc |-> None]
Raise(e) == [ret |-> None, exc |-> <<e>>]
Raised(r) == r.exc # None

IndexError(at) ==
    Exception("IndexError", <<<<"l","i","s","t"," ","i","n","d","e","x"," ",
                               "o","u","t"," ","o","f"," ","r","a","n","g","e">>>>, at)

\* the comment of line 238-241, given other
comment_of_at_least_two(other) ==
    IF Len(other) >= 2 THEN strip_doublequotes(strip_comments(other[2])) ELSE <<>>

comment_of(other) ==
    IF Len(other) = 2 THEN strip_doublequotes(strip_comments(other[2])) ELSE <<>>

interpret_line(ln) ==
    LET raw == strip(replace(ln, <<"\n">>, <<>>))
        sp == split(raw, "=")
        parts == [i \in DOMAIN sp |-> strip(sp[i])]
    IN  IF Len(parts) < 2 THEN Raise(IndexError(236))
        ELSE LET so == split(parts[2], ";")
                 other == [i \in DOMAIN so |-> strip(so[i])]
                 value == strip_doublequotes(other[1])
             IN  Return(Line(parts[1], value, comment_of(other)))

(***************************************************************************)
(* The string literals of process().                                       *)
(***************************************************************************)
s_Type == <<"T", "y", "p", "e">>
s_Timestamp == <<"T", "i", "m", "e", "s", "t", "a", "m", "p">>
s_DagStatus == <<"D", "a", "g", "S", "t", "a", "t", "u", "s">>
s_NodesTotal == <<"N", "o", "d", "e", "s", "T", "o", "t", "a", "l">>
s_NodesDone == <<"N", "o", "d", "e", "s", "D", "o", "n", "e">>
s_NodesPre == <<"N", "o", "d", "e", "s", "P", "r", "e">>
s_NodesQueued == <<"N", "o", "d", "e", "s", "Q", "u", "e", "u", "e", "d">>
s_NodesPost == <<"N", "o", "d", "e", "s", "P", "o", "s", "t">>
s_NodesReady == <<"N", "o", "d", "e", "s", "R", "e", "a", "d", "y">>
s_NodesUnready == <<"N", "o", "d", "e", "s", "U", "n", "r", "e", "a", "d", "y">>
s_NodesFailed == <<"N", "o", "d", "e", "s", "F", "a", "i", "l", "e", "d">>
s_JobProcsHeld == <<"J", "o", "b", "P", "r", "o", "c", "s", "H", "e", "l", "d">>
s_JobProcsIdle == <<"J", "o", "b", "P", "r", "o", "c", "s", "I", "d", "l", "e">>
s_Node == <<"N", "o", "d", "e">>
s_NodeStatus == <<"N", "o", "d", "e", "S", "t", "a", "t", "u", "s">>
s_StatusDetails == <<"S", "t", "a", "t", "u", "s", "D", "e", "t", "a", "i", "l", "s">>
s_RetryCount == <<"R", "e", "t", "r", "y", "C", "o", "u", "n", "t">>
s_JobProcsQueued == <<"J", "o", "b", "P", "r", "o", "c", "s", "Q", "u", "e", "u", "e", "d">>
s_EndTime == <<"E", "n", "d", "T", "i", "m", "e">>
s_NextUpdate == <<"N", "e", "x", "t", "U", "p", "d", "a", "t", "e">>
s_StatusEnd == <<"S", "t", "a", "t", "u", "s", "E", "n", "d">>
s_UnknownBlockType == <<"U", "n", "k", "n", "o", "w", "n", " ", "b", "l", "o", "c", "k",
    " ", "T", "y", "p", "e">>
s_STATUS_SUBMITTED == <<"S", "T", "A", "T", "U", "S", "_", "S", "U", "B", "M", "I", "T",
    "T", "E", "D">>
s_not_idle == <<"n", "o", "t", "_", "i", "d", "l", "e">>

(***************************************************************************)
(* int(), "{0:.1f}".format() and the exceptions of the parser.             *)
(***************************************************************************)
Digits == <<"0", "1", "2", "3", "4", "5", "6", "7", "8", "9">>
IsDigit(c) == \E i \in DOMAIN Digits : Digits[i] = c
DigitValue(c) == (CHOOSE i \in DOMAIN Digits : Digits[i] = c) - 1

RECURSIVE Natural(_)
Natural(s) == IF s = <<>> THEN 0 ELSE 10 * Natural(SubSeq(s, 1, Len(s) - 1)) + DigitValue(s[Len(s)])

\* the literal int() accepts: optional blanks, an optional sign, digits
IsIntLiteral(s) ==
    LET t == strip(s)
        d == IF t # <<>> /\ Head(t) \in {"+", "-"} THEN Tail(t) ELSE t
    IN  d # <<>> /\ \A i \in DOMAIN d : IsDigit(d[i])

int(s) ==
    LET t == strip(s)
    IN  IF Head(t) = "-" THEN 0 - Natural(Tail(t))
        ELSE IF Head(t) = "+" THEN Natural(Tail(t))
        ELSE Natural(t)

RECURSIVE str(_)
str(n) == IF n < 10 THEN <<Digits[n + 1]>> ELSE str(n \div 10) \o <<Digits[(n % 10) + 1]>>

Abs(n) == IF n < 0 THEN 0 - n ELSE n

\* "{0:.1f}".format(100. * n / d) for d # 0: one decimal place, ties to even
percent(n, d) ==
    LET q == (1000 * Abs(n)) \div Abs(d)
        r == (1000 * Abs(n)) % Abs(d)
        t == IF 2 * r > Abs(d) \/ (2 * r = Abs(d) /\ q % 2 = 1) THEN q + 1 ELSE q
        sign == IF (n < 0) # (d < 0) THEN <<"-">> ELSE <<>>
    IN  sign \o str(t \div 10) \o <<".">> \o str(t % 10)

KeyError(key, at) == Exception("KeyError", <<key>>, at)
ValueError(at) == Exception("ValueError", <<>>, at)
ZeroDivisionError(at) == Exception("ZeroDivisionError", <<>>, at)
AttributeError(at) == Exception("AttributeError", <<>>, at)
IOError(at) == Exception("IOError", <<>>, at)

(***************************************************************************)
(* The classes DagStatus, NodeStatus and StatusEnd.                        *)
(***************************************************************************)
\* the first i with ~IsIntLiteral(args[i][1]), or 0; args[i] = <<string, source line>>
FirstBadInt(args) ==
    IF \A i \in DOMAIN args : IsIntLiteral(args[i][1]) THEN 0
    ELSE CHOOSE i \in DOMAIN args :
            /\ ~IsIntLiteral(args[i][1])
            /\ \A j \in 1..(i - 1) : IsIntLiteral(args[j][1])

\* kw: the keyword arguments of the call
DagStatus(kw) ==
    LET ints == <<<<kw.nodes_total, 95>>, <<kw.nodes_done, 96>>, <<kw.nodes_pre, 97>>,
                  <<kw.nodes_queued, 98>>, <<kw.nodes_post, 99>>, <<kw.nodes_ready, 100>>,
                  <<kw.nodes_unready, 101>>, <<kw.nodes_failed, 102>>,
                  <<kw.job_procs_held, 103>>, <<kw.job_procs_idle, 104>>>>
        bad == FirstBadInt(ints)
    IN  IF bad # 0 THEN Raise(ValueError(ints[bad][2]))
        ELSE IF int(kw.nodes_total) = 0 THEN Raise(ZeroDivisionError(105))
        ELSE Return([timestamp |-> kw.timestamp,
                     dag_status |-> strip_doublequotes(kw.dag_status),
                     nodes_total |-> int(kw.nodes_total),
                     nodes_done |-> int(kw.nodes_done),
                     nodes_pre |-> int(kw.nodes_pre),
                     nodes_queued |-> int(kw.nodes_queued),
                     nodes_post |-> int(kw.nodes_post),
                     nodes_ready |-> int(kw.nodes_ready),
                     nodes_unready |-> int(kw.nodes_unready),
                     nodes_failed |-> int(kw.nodes_failed),
                     job_procs_held |-> int(kw.job_procs_held),
                     job_procs_idle |-> int(kw.job_procs_idle),
                     nodes_done_percent |->
                         percent(int(kw.nodes_done), int(kw.nodes_total)),
                     node_statuses |-> <<>>])

\* job_procs_running, counting every submitted node
job_procs_running_submitted(ds) ==
    Cardinality({i \in DOMAIN ds.node_statuses :
                    ds.node_statuses[i].node_status = s_STATUS_SUBMITTED})

job_procs_running(ds) ==
    Cardinality({i \in DOMAIN ds.node_statuses :
                    /\ ds.node_statuses[i].node_status = s_STATUS_SUBMITTED
                    /\ ds.node_statuses[i].status_details = s_not_idle})

nodes_running_percent(ds) == percent(job_procs_running(ds), ds.nodes_total)

NodeStatus(kw) ==
    LET ints == <<<<kw.retry_count, 134>>, <<kw.job_procs_queued, 135>>,
                  <<kw.job_procs_held, 136>>>>
        bad == FirstBadInt(ints)
    IN  IF bad # 0 THEN Raise(ValueError(ints[bad][2]))
        ELSE Return([node |-> strip_doublequotes(kw.node),
                     node_status |-> strip_doublequotes(kw.node_status),
                     status_details |-> replace(kw.status_details, <<"\"">>, <<>>),
                     retry_count |-> int(kw.retry_count),
                     job_procs_queued |-> int(kw.job_procs_queued),
                     job_procs_held |-> int(kw.job_procs_held)])

StatusEnd(kw) ==
    Return([end_time |-> strip_doublequotes(kw.end_time),
            next_update |-> strip_doublequotes(kw.next_update)])

(***************************************************************************)
(* process(): the dispatch of a block close on contents['Type'] (lines     *)
(* 184-211).  The keyword arguments are evaluated in order, so the first   *)
(* absent key raises KeyError before the constructor is entered.           *)
(***************************************************************************)
\* the last i with keys[i][1] absent from c, or 0
LastMissing(c, keys) ==
    IF \A i \in DOMAIN keys : keys[i][1] \in DOMAIN c THEN 0
    ELSE CHOOSE i \in DOMAIN keys :
            /\ keys[i][1] \notin DOMAIN c
            /\ \A j \in (i + 1)..Len(keys) : keys[j][1] \in DOMAIN c

\* the first i with keys[i][1] absent from c, or 0; keys[i] = <<key, source line>>
FirstMissing(c, keys) ==
    IF \A i \in DOMAIN keys : keys[i][1] \in DOMAIN c THEN 0
    ELSE CHOOSE i \in DOMAIN keys :
            /\ keys[i][1] \notin DOMAIN c
            /\ \A j \in 1..(i - 1) : keys[j][1] \in DOMAIN c

DagStatusKeys ==
    <<<<s_Timestamp, 185>>, <<s_DagStatus, 186>>, <<s_NodesTotal, 187>>,
      <<s_NodesDone, 188>>, <<s_NodesPre, 189>>, <<s_NodesQueued, 190>>,
      <<s_NodesPost, 191>>, <<s_NodesReady, 192>>, <<s_NodesUnready, 193>>,
      <<s_NodesFailed, 194>>, <<s_JobProcsHeld, 195>>, <<s_JobProcsIdle, 196>>>>

NodeStatusKeys ==
    <<<<s_Node, 198>>, <<s_NodeStatus, 199>>, <<s_StatusDetails, 200>>,
      <<s_RetryCount, 201>>, <<s_JobProcsQueued, 202>>, <<s_JobProcsHeld, 203>>>>

StatusEndKeys == <<<<s_EndTime, 206>>, <<s_NextUpdate, 207>>>>

\* the lookups contents[key] of one constructor call, then the call
Construct(c, keys, obj) ==
    LET missing == FirstMissing(c, keys)
    IN  IF missing # 0 THEN Raise(KeyError(keys[missing][1], keys[missing][2]))
        ELSE obj

\* lines 208-211: no known Type
unknown_block_type_value_error(c) == Raise(ValueError(211))

unknown_block_type(c) == Raise(KeyError(s_UnknownBlockType, 211))

\* lines 185-196: the keyword arguments of DagStatus(...), each from the value or from
\* the comment of its line
DagStatusArgs(c) ==
    [timestamp |-> c[s_Timestamp].comment,
     dag_status |-> c[s_DagStatus].comment,
     nodes_total |-> c[s_NodesTotal].value,
     nodes_done |-> c[s_NodesDone].value,
     nodes_pre |-> c[s_NodesPre].value,
     nodes_queued |-> c[s_NodesQueued].value,
     nodes_post |-> c[s_NodesPost].value,
     nodes_ready |-> c[s_NodesReady].value,
     nodes_unready |-> c[s_NodesUnready].value,
     nodes_failed |-> c[s_NodesFailed].value,
     job_procs_held |-> c[s_JobProcsHeld].value,
     job_procs_idle |-> c[s_JobProcsIdle].value]

\* NodeStatusArgs, with node_status taken from the value
NodeStatusArgs_status_from_value(c) ==
    [node |-> c[s_Node].value,
     node_status |-> c[s_NodeStatus].value,
     status_details |-> c[s_StatusDetails].value,
     retry_count |-> c[s_RetryCount].value,
     job_procs_queued |-> c[s_JobProcsQueued].value,
     job_procs_held |-> c[s_JobProcsHeld].value]

\* lines 198-203: the keyword arguments of NodeStatus(...)
NodeStatusArgs(c) ==
    [node |-> c[s_Node].value,
     node_status |-> c[s_NodeStatus].comment,
     status_details |-> c[s_StatusDetails].value,
     retry_count |-> c[s_RetryCount].value,
     job_procs_queued |-> c[s_JobProcsQueued].value,
     job_procs_held |-> c[s_JobProcsHeld].value]

\* lines 206-207: the keyword arguments of StatusEnd(...)
StatusEndArgs(c) ==
    [end_time |-> c[s_EndTime].comment,
     next_update |-> c[s_NextUpdate].comment]

\* Returns [type, obj] for the record to store, or raises.
dispatch(c) ==
    IF s_Type \notin DOMAIN c THEN Raise(KeyError(s_Type, 184))
    ELSE IF c[s_Type].value = s_DagStatus THEN
        LET r == Construct(c, DagStatusKeys, DagStatus(DagStatusArgs(c)))
        IN  IF Raised(r) THEN r ELSE Return([type |-> "DagStatus", obj |-> r.ret[1]])
    ELSE IF c[s_Type].value = s_NodeStatus THEN
        LET r == Construct(c, NodeStatusKeys, NodeStatus(NodeStatusArgs(c)))
        IN  IF Raised(r) THEN r ELSE Return([type |-> "NodeStatus", obj |-> r.ret[1]])
    ELSE IF c[s_Type].value = s_StatusEnd THEN
        LET r == Construct(c, StatusEndKeys, StatusEnd(StatusEndArgs(c)))
        IN  IF Raised(r) THEN r ELSE Return([type |-> "StatusEnd", obj |-> r.ret[1]])
    ELSE unknown_block_type(c)

(***************************************************************************)
(* print_table(): what it prints, in order, and the exception that ends    *)
(* it.  A printed line is [kind, data]; the widths of the columns and of   *)
(* the rules are not modelled.  tty: whether `stty size` answers.          *)
(***************************************************************************)
Item(kind, data) == [kind |-> kind, data |-> data]

\* TColors.color
color(state) ==
    IF startswith(state, <<"S","T","A","T","U","S","_","E","R","R","O","R">>) THEN "RED"
    ELSE IF startswith(state, s_STATUS_SUBMITTED) THEN "BLUE"
    ELSE IF startswith(state, <<"S","T","A","T","U","S","_","D","O","N","E">>) THEN "GREEN"
    ELSE "ENDC"

JobRow(n) == Item("job_row", <<color(n.node_status), n.node, n.node_status,
                               n.retry_count, n.status_details>>)

SummaryRow(ds) ==
    Item("summary_row", <<color(ds.dag_status), ds.dag_status, ds.nodes_total,
                          ds.nodes_queued, ds.job_procs_idle, job_procs_running(ds),
                          nodes_running_percent(ds), ds.nodes_failed, ds.nodes_done,
                          ds.nodes_done_percent>>)

Rule(ch) == Item("rule", <<ch>>)

print_table(ds, ns, se, summ, tty) ==
    LET jobs == IF summ THEN <<>>
                ELSE <<Rule("~"), Item("job_header", <<>>), Rule("-")>>
                     \o [i \in DOMAIN ns |-> JobRow(ns[i])] \o <<Rule("-")>>
        dag == <<Rule("~"), Item("summary_header", <<>>), Rule("-"), SummaryRow(ds)>>
    IN  IF ~tty THEN [out |-> <<>>, exc |-> <<ValueError(302)>>]
        ELSE IF summ THEN [out |-> jobs \o dag \o <<Rule("~")>>, exc |-> None]
        ELSE IF se = None
             THEN \* `print a, b` writes a before it evaluates b
                  [out |-> jobs \o dag \o <<Rule("-"), Item("recorded_at_label", <<>>)>>,
                   exc |-> <<AttributeError(330)>>]
        ELSE [out |-> jobs \o dag
                        \o <<Rule("-"), Item("recorded_at", <<se[1].end_time>>),
                             Item("next_update", <<se[1].next_update>>), Rule("~")>>,
              exc |-> None]

(***************************************************************************)
(* The status files: a file holds at most MaxBlocks of the blocks below,   *)
(* written as condor_dagman writes them.                                   *)
(***************************************************************************)
Quoted(s) == <<"\"">> \o s \o <<"\"">>
Field(k, v) == <<" ", " ">> \o k \o <<" ", "=", " ">> \o v \o <<";", "\n">>
FieldC(k, v, c) ==
    <<" ", " ">> \o k \o <<" ", "=", " ">> \o v \o <<";", " ", "/", "*", " ">>
        \o Quoted(c) \o <<" ", "*", "/", "\n">>
BlockOpen == <<"[", "\n">>
BlockClose == <<"]", "\n">>

DagBlock ==
    <<BlockOpen,
      Field(s_Type, Quoted(s_DagStatus)),
      <<" ", " ", "D", "a", "g", "F", "i", "l", "e", "s", " ", "=", " ", "{", "\n">>,
      <<" ", " ", " ", " ", "\"", "j", "o", "b", ".", "d", "a", "g", "\"", "\n">>,
      <<" ", " ", "}", ";", "\n">>,
      FieldC(s_Timestamp, <<"7">>, <<"M", "o", "n">>),
      FieldC(s_DagStatus, <<"3">>, s_STATUS_SUBMITTED \o <<" ", "(", ")">>),
      Field(s_NodesTotal, <<"1", "0">>),
      Field(s_NodesDone, <<"3">>),
      Field(s_NodesPre, <<"0">>),
      Field(s_NodesQueued, <<"2">>),
      Field(s_NodesPost, <<"0">>),
      Field(s_NodesReady, <<"1">>),
      Field(s_NodesUnready, <<"4">>),
      Field(s_NodesFailed, <<"0">>),
      Field(s_JobProcsHeld, <<"0">>),
      Field(s_JobProcsIdle, <<"1">>),
      BlockClose>>

DagNoTotalBlock ==
    <<BlockOpen,
      Field(s_Type, Quoted(s_DagStatus)),
      FieldC(s_Timestamp, <<"7">>, <<"M", "o", "n">>),
      FieldC(s_DagStatus, <<"3">>, s_STATUS_SUBMITTED \o <<" ", "(", ")">>),
      Field(s_NodesDone, <<"3">>),
      BlockClose>>

NodeBlock(name, code, status, details, retries) ==
    <<BlockOpen,
      Field(s_Type, Quoted(s_NodeStatus)),
      Field(s_Node, Quoted(name)),
      FieldC(s_NodeStatus, code, status),
      Field(s_StatusDetails, Quoted(details)),
      Field(s_RetryCount, retries),
      Field(s_JobProcsQueued, <<"1">>),
      Field(s_JobProcsHeld, <<"0">>),
      BlockClose>>

NodeABlock == NodeBlock(<<"A">>, <<"3">>, s_STATUS_SUBMITTED, s_not_idle, <<"0">>)

NodeBBlock ==
    NodeBlock(<<"B">>, <<"5">>, <<"S","T","A","T","U","S","_","D","O","N","E">>, <<>>, <<"1">>)

NodeNoRetryBlock ==
    <<BlockOpen,
      Field(s_Type, Quoted(s_NodeStatus)),
      Field(s_Node, Quoted(<<"C">>)),
      FieldC(s_NodeStatus, <<"1">>, <<"S","T","A","T","U","S","_","R","E","A","D","Y">>),
      Field(s_StatusDetails, Quoted(<<>>)),
      Field(s_JobProcsQueued, <<"0">>),
      Field(s_JobProcsHeld, <<"0">>),
      BlockClose>>

EndBlock ==
    <<BlockOpen,
      Field(s_Type, Quoted(s_StatusEnd)),
      FieldC(s_EndTime, <<"8">>, <<"T", "u", "e">>),
      FieldC(s_NextUpdate, <<"9">>, <<"W", "e", "d">>),
      BlockClose>>

BogusBlock ==
    <<BlockOpen,
      Field(s_Type, Quoted(<<"B", "o", "g", "u", "s">>)),
      Field(s_Node, Quoted(<<"X">>)),
      BlockClose>>

NoTypeBlock == <<BlockOpen, Field(s_Node, Quoted(<<"X">>)), BlockClose>>

MalformedBlock ==
    <<BlockOpen,
      Field(s_Type, Quoted(s_NodeStatus)),
      <<" ", " ", "N", "o", "d", "e", " ", "\"", "A", "\"", ";", "\n">>,
      BlockClose>>

StrayLines == <<<<"D", "A", "G", " ", "s", "t", "a", "t", "u", "s", "\n">>>>

UnclosedBlock == <<BlockOpen, Field(s_Type, Quoted(s_NodeStatus))>>

\* A second DagStatus block: other counters, and no comment on its Timestamp and
\* DagStatus lines.
Dag2Block ==
    <<BlockOpen,
      Field(s_Type, Quoted(s_DagStatus)),
      Field(s_Timestamp, <<"8">>),
      Field(s_DagStatus, <<"5">>),
      Field(s_NodesTotal, <<"3">>),
      Field(s_NodesDone, <<"2">>),
      Field(s_NodesPre, <<"0">>),
      Field(s_NodesQueued, <<"1">>),
      Field(s_NodesPost, <<"0">>),
      Field(s_NodesReady, <<"0">>),
      Field(s_NodesUnready, <<"0">>),
      Field(s_NodesFailed, <<"0">>),
      Field(s_JobProcsHeld, <<"0">>),
      Field(s_JobProcsIdle, <<"0">>),
      BlockClose>>

\* A DagStatus block of a DAG without nodes.
Dag0Block ==
    <<BlockOpen,
      Field(s_Type, Quoted(s_DagStatus)),
      FieldC(s_Timestamp, <<"7">>, <<"M", "o", "n">>),
      FieldC(s_DagStatus, <<"5">>, <<"S","T","A","T","U","S","_","D","O","N","E">>),
      Field(s_NodesTotal, <<"0">>),
      Field(s_NodesDone, <<"0">>),
      Field(s_NodesPre, <<"0">>),
      Field(s_NodesQueued, <<"0">>),
      Field(s_NodesPost, <<"0">>),
      Field(s_NodesReady, <<"0">>),
      Field(s_NodesUnready, <<"0">>),
      Field(s_NodesFailed, <<"0">>),
      Field(s_JobProcsHeld, <<"0">>),
      Field(s_JobProcsIdle, <<"0">>),
      BlockClose>>

\* A second StatusEnd block: another NextUpdate, and no comment on its EndTime line.
End2Block ==
    <<BlockOpen,
      Field(s_Type, Quoted(s_StatusEnd)),
      Field(s_EndTime, <<"8">>),
      FieldC(s_NextUpdate, <<"9">>, <<"T", "h", "u">>),
      BlockClose>>

\* A NodeStatus block with no comment on its NodeStatus line, with a field line
\* between a line that holds "{" and the next line that holds "}", and with a line
\* that begins with "]" and holds "}".
NodeDBlock ==
    <<BlockOpen,
      Field(s_Type, Quoted(s_NodeStatus)),
      Field(s_Node, Quoted(<<"D">>)),
      Field(s_NodeStatus, <<"3">>),
      Field(s_StatusDetails, Quoted(s_not_idle)),
      Field(s_RetryCount, <<"0">>),
      <<" ", " ", "M", "a", "c", "r", "o", "s", " ", "=", " ", "{", "\n">>,
      Field(s_RetryCount, <<"7">>),
      <<"]", " ", "}", ";", "\n">>,
      Field(s_JobProcsQueued, <<"1">>),
      Field(s_JobProcsHeld, <<"0">>),
      BlockClose>>

\* A node that is submitted but idle.
NodeEBlock == NodeBlock(<<"E">>, <<"3">>, s_STATUS_SUBMITTED, <<"i", "d", "l", "e">>, <<"0">>)

\* A "[" line with nothing after it.
OpenedBlock == <<BlockOpen>>

BlockIds == {"Dag", "DagNoTotal", "NodeA", "NodeB", "NodeNoRetry", "End", "Bogus",
             "NoType", "Malformed", "Stray", "Unclosed"}

EdgeBlockIds == {"Dag", "Dag2", "NodeA", "NodeB", "NodeD", "NodeE", "End", "End2",
                 "Stray", "Unclosed", "Opened"}

FewBlockIds == {"Dag", "Dag0", "NodeA", "End", "Unclosed"}

BlockLines(b) ==
    CASE b = "Dag" -> DagBlock
      [] b = "DagNoTotal" -> DagNoTotalBlock
      [] b = "NodeA" -> NodeABlock
      [] b = "NodeB" -> NodeBBlock
      [] b = "NodeNoRetry" -> NodeNoRetryBlock
      [] b = "End" -> EndBlock
      [] b = "Bogus" -> BogusBlock
      [] b = "NoType" -> NoTypeBlock
      [] b = "Malformed" -> MalformedBlock
      [] b = "Stray" -> StrayLines
      [] b = "Unclosed" -> UnclosedBlock
      [] b = "Dag2" -> Dag2Block
      [] b = "Dag0" -> Dag0Block
      [] b = "End2" -> End2Block
      [] b = "NodeD" -> NodeDBlock
      [] b = "NodeE" -> NodeEBlock
      [] b = "Opened" -> OpenedBlock

StatusFiles == SeqsUpTo(BlockIds, MaxBlocks)

EdgeStatusFiles == SeqsUpTo(EdgeBlockIds, MaxBlocks)

FewStatusFiles == SeqsUpTo(FewBlockIds, MaxBlocks)

\* interpret_line, tabulated over the lines of the blocks
BlockLineSet ==
    UNION {{BlockLines(b)[i] : i \in DOMAIN BlockLines(b)} : b \in BlockIds \cup EdgeBlockIds \cup FewBlockIds}
InterpretedLine == Table([ln \in BlockLineSet |-> interpret_line(ln)])

\* the number of lines of a file, and its n-th line
RECURSIVE NumLines(_)
NumLines(f) == IF f = <<>> THEN 0 ELSE Len(BlockLines(Head(f))) + NumLines(Tail(f))

RECURSIVE LineAt(_, _)
LineAt(f, n) ==
    IF n <= Len(BlockLines(Head(f))) THEN BlockLines(Head(f))[n]
    ELSE LineAt(Tail(f), n - Len(BlockLines(Head(f))))

(***************************************************************************)
(* The program: the loop of lines 349-350 and process().                   *)
(***************************************************************************)
Init ==
    /\ nfiles \in 0..MaxFiles
    /\ summary \in BOOLEAN
    /\ fileIdx = 0
    /\ pc = "main"
    /\ sfile = <<>>
    /\ lineno = 0
    /\ line = <<>>
    /\ line_parsed = None
    /\ contents = <<>>
    /\ store_contents = FALSE
    /\ dag_status = None
    /\ node_statuses = <<>>
    /\ status_end = None
    /\ stdout = <<>>
    /\ exc = None
    /\ closed = <<>>

Printed(kind, data) == [file |-> fileIdx, kind |-> kind, data |-> data]

\* the locals of process() that the loop of line 177 reads and writes, as one record
Locals ==
    [contents |-> contents, store_contents |-> store_contents,
     dag_status |-> dag_status, node_statuses |-> node_statuses,
     status_end |-> status_end, line_parsed |-> line_parsed, exc |-> exc,
     closed |-> closed]

\* lines 170-176: the locals when the file has just been opened
Fresh ==
    [contents |-> <<>>, store_contents |-> FALSE, dag_status |-> None,
     node_statuses |-> <<>>, status_end |-> None, line_parsed |-> None, exc |-> None,
     closed |-> <<>>]

\* open, with the node list kept from one call of process() to the next
open_keep_nodes(files) ==
    /\ pc = "main"
    /\ fileIdx < nfiles
    /\ fileIdx' = fileIdx + 1
    /\ stdout' = Append(stdout, [file |-> fileIdx + 1, kind |-> "filename", data |-> <<>>])
    /\ dag_status' = Fresh.dag_status
    /\ node_statuses' = node_statuses
    /\ status_end' = Fresh.status_end
    /\ contents' = Fresh.contents
    /\ store_contents' = Fresh.store_contents
    /\ lineno' = 0
    /\ line' = <<>>
    /\ line_parsed' = Fresh.line_parsed
    /\ closed' = Fresh.closed
    /\ \/ /\ sfile' = <<>>
          /\ exc' = <<IOError(174)>>
          /\ pc' = "crashed"
       \/ /\ sfile' \in files
          /\ exc' = None
          /\ pc' = "reading"
    /\ UNCHANGED <<nfiles, summary>>

\* Lines 349-350 and 168-176: the next file is handed to process(), which prints its
\* name, starts from empty results and opens it.  The file is missing or unreadable,
\* or holds one of files.
open(files) ==
    /\ pc = "main"
    /\ fileIdx < nfiles
    /\ fileIdx' = fileIdx + 1
    /\ stdout' = Append(stdout, [file |-> fileIdx + 1, kind |-> "filename", data |-> <<>>])
    /\ dag_status' = Fresh.dag_status
    /\ node_statuses' = Fresh.node_statuses
    /\ status_end' = Fresh.status_end
    /\ contents' = Fresh.contents
    /\ store_contents' = Fresh.store_contents
    /\ lineno' = 0
    /\ line' = <<>>
    /\ line_parsed' = Fresh.line_parsed
    /\ closed' = Fresh.closed
    /\ \/ /\ sfile' = <<>>
          /\ exc' = <<IOError(174)>>
          /\ pc' = "crashed"
       \/ /\ sfile' \in files
          /\ exc' = None
          /\ pc' = "reading"
    /\ UNCHANGED <<nfiles, summary>>

process_open == open(StatusFiles)

\* node_statuses.append(node)
prepend(list, x) == <<x>> \o list

append(list, x) == Append(list, x)

\* contents[key] = line_parsed
Store(c, lp) == [k \in DOMAIN c \cup {lp.key} |-> IF k = lp.key THEN lp ELSE c[k]]

\* classify, with the test of line 181 made first
classify_close_first(ln) ==
    IF startswith(ln, <<"]">>) THEN "close"
    ELSE IF startswith(ln, <<"[">>) \/ contains(ln, "}") THEN "start"
    ELSE IF contains(ln, "{") THEN "stop"
    ELSE "other"

\* lines 178, 181, 215: what the loop takes the line for, in the order of the tests
classify(ln) ==
    IF startswith(ln, <<"[">>) \/ contains(ln, "}") THEN "start"
    ELSE IF startswith(ln, <<"]">>) THEN "close"
    ELSE IF contains(ln, "{") THEN "stop"
    ELSE "other"

\* close_block, keeping the DagStatus and StatusEnd objects it already has
close_block_first_wins(st) ==
    LET r == dispatch(st.contents)
    IN  IF Raised(r) THEN [st EXCEPT !.exc = r.exc]
        ELSE [st EXCEPT
                !.dag_status = IF r.ret[1].type = "DagStatus" /\ @ = None
                               THEN <<r.ret[1].obj>> ELSE @,
                !.node_statuses = IF r.ret[1].type = "NodeStatus"
                                  THEN append(@, r.ret[1].obj) ELSE @,
                !.status_end = IF r.ret[1].type = "StatusEnd" /\ @ = None
                               THEN <<r.ret[1].obj>> ELSE @,
                !.closed = Append(@, st.contents),
                !.contents = <<>>,
                !.store_contents = FALSE]

\* close_block, leaving the mapping and the flag as they are
close_block_keep_contents(st) ==
    LET r == dispatch(st.contents)
    IN  IF Raised(r) THEN [st EXCEPT !.exc = r.exc]
        ELSE [st EXCEPT
                !.dag_status = IF r.ret[1].type = "DagStatus" THEN <<r.ret[1].obj>> ELSE @,
                !.node_statuses = IF r.ret[1].type = "NodeStatus"
                                  THEN append(@, r.ret[1].obj) ELSE @,
                !.status_end = IF r.ret[1].type = "StatusEnd" THEN <<r.ret[1].obj>> ELSE @,
                !.closed = Append(@, st.contents)]

\* lines 182-214: the block closes; st is the locals before, the result the locals
\* after (with exc set when the dispatch raises)
close_block(st) ==
    LET r == dispatch(st.contents)
    IN  IF Raised(r) THEN [st EXCEPT !.exc = r.exc]
        ELSE [st EXCEPT
                !.dag_status = IF r.ret[1].type = "DagStatus" THEN <<r.ret[1].obj>> ELSE @,
                !.node_statuses = IF r.ret[1].type = "NodeStatus"
                                  THEN append(@, r.ret[1].obj) ELSE @,
                !.status_end = IF r.ret[1].type = "StatusEnd" THEN <<r.ret[1].obj>> ELSE @,
                !.closed = Append(@, st.contents),
                !.contents = <<>>,
                !.store_contents = FALSE]

\* field_line, tokenizing whatever the flag
field_line_always(st, ln) ==
    LET r == InterpretedLine[ln]
    IN  IF Raised(r) THEN [st EXCEPT !.exc = r.exc]
        ELSE [st EXCEPT !.line_parsed = r.ret, !.contents = Store(@, r.ret[1])]

\* lines 218-221: any other line is tokenized and stored when the flag is on
field_line(st, ln) ==
    IF ~st.store_contents THEN st
    ELSE LET r == InterpretedLine[ln]
         IN  IF Raised(r) THEN [st EXCEPT !.exc = r.exc]
             ELSE [st EXCEPT !.line_parsed = r.ret, !.contents = Store(@, r.ret[1])]

\* lines 178-221: the body of the for loop, from the locals before to the locals after
loop_body(st, ln) ==
    CASE classify(ln) = "start" -> [st EXCEPT !.store_contents = TRUE]
      [] classify(ln) = "close" -> close_block(st)
      [] classify(ln) = "stop" -> [st EXCEPT !.store_contents = FALSE]
      [] OTHER -> field_line(st, ln)

\* Lines 177-221: one pass of the for loop.
process_line ==
    /\ pc = "reading"
    /\ lineno < NumLines(sfile)
    /\ lineno' = lineno + 1
    /\ line' = LineAt(sfile, lineno + 1)
    /\ \E st \in {loop_body(Locals, LineAt(sfile, lineno + 1))} :
           /\ contents' = st.contents
           /\ store_contents' = st.store_contents
           /\ dag_status' = st.dag_status
           /\ node_statuses' = st.node_statuses
           /\ status_end' = st.status_end
           /\ line_parsed' = st.line_parsed
           /\ closed' = st.closed
           /\ exc' = st.exc
           /\ pc' = IF st.exc = None THEN pc ELSE "crashed"
    /\ UNCHANGED <<nfiles, summary, fileIdx, sfile, stdout>>

\* dag_status.node_statuses = node_statuses (line 222), given the two
attach(ds, ns) ==
    IF ds = None THEN Raise(AttributeError(222))
    ELSE Return([ds[1] EXCEPT !.node_statuses = ns])

\* process_eof, closing the block that is still open when the file ends
process_eof_flush ==
    /\ pc = "reading"
    /\ lineno = NumLines(sfile)
    /\ \E st \in {IF contents # <<>> THEN close_block(Locals) ELSE Locals} :
         LET r == attach(st.dag_status, st.node_statuses)
         IN  /\ contents' = st.contents
             /\ store_contents' = st.store_contents
             /\ node_statuses' = st.node_statuses
             /\ status_end' = st.status_end
             /\ closed' = st.closed
             /\ IF st.exc # None THEN
                    /\ exc' = st.exc
                    /\ pc' = "crashed"
                    /\ dag_status' = st.dag_status
                ELSE IF Raised(r) THEN
                    /\ exc' = r.exc
                    /\ pc' = "crashed"
                    /\ dag_status' = st.dag_status
                ELSE
                    /\ dag_status' = r.ret
                    /\ pc' = "render"
                    /\ UNCHANGED exc
    /\ UNCHANGED <<nfiles, summary, fileIdx, sfile, lineno, line, line_parsed, stdout>>

\* process_eof, returning quietly when there is no DagStatus object
process_eof_silent ==
    /\ pc = "reading"
    /\ lineno = NumLines(sfile)
    /\ LET r == attach(dag_status, node_statuses)
       IN  IF Raised(r) THEN
                /\ pc' = "main"
                /\ UNCHANGED <<dag_status, exc>>
           ELSE /\ dag_status' = r.ret
                /\ pc' = "render"
                /\ UNCHANGED exc
    /\ UNCHANGED <<nfiles, summary, fileIdx, sfile, lineno, line, line_parsed, contents,
                   store_contents, node_statuses, status_end, stdout, closed>>

\* Line 222: the file is exhausted and closed; the node list is attached.
process_eof ==
    /\ pc = "reading"
    /\ lineno = NumLines(sfile)
    /\ LET r == attach(dag_status, node_statuses)
       IN  IF Raised(r) THEN
                /\ exc' = r.exc
                /\ pc' = "crashed"
                /\ UNCHANGED dag_status
           ELSE /\ dag_status' = r.ret
                /\ pc' = "render"
                /\ UNCHANGED exc
    /\ UNCHANGED <<nfiles, summary, fileIdx, sfile, lineno, line, line_parsed, contents,
                   store_contents, node_statuses, status_end, stdout, closed>>

\* Line 223: print_table(dag_status, node_statuses, status_end, summary); process()
\* returns to the loop when it returns.
process_print ==
    /\ pc = "render"
    /\ \E tty \in BOOLEAN :
        LET r == print_table(dag_status[1], node_statuses, status_end, summary, tty)
        IN  /\ stdout' = stdout \o [i \in DOMAIN r.out |->
                                        Printed(r.out[i].kind, r.out[i].data)]
            /\ exc' = r.exc
            /\ pc' = IF r.exc = None THEN "main" ELSE "crashed"
    /\ UNCHANGED <<nfiles, summary, fileIdx, sfile, lineno, line, line_parsed, contents,
                   store_contents, dag_status, node_statuses, status_end, closed>>

\* The loop of line 349 is over: the program exits normally.
main_exit ==
    /\ pc = "main"
    /\ fileIdx = nfiles
    /\ pc' = "done"
    /\ UNCHANGED <<nfiles, summary, fileIdx, sfile, lineno, line, line_parsed, contents,
                   store_contents, dag_status, node_statuses, status_end, stdout, exc,
                   closed>>

Next == process_open \/ process_line \/ process_eof \/ process_print \/ main_exit

Spec == Init /\ [][Next]_vars

\* The same program, given one status file made of the blocks of EdgeBlockIds.
InitEdge == Init /\ nfiles = 1

process_open_edge == open(EdgeStatusFiles)

NextEdge ==
    process_open_edge \/ process_line \/ process_eof \/ process_print \/ main_exit

SpecEdge == InitEdge /\ [][NextEdge]_vars

\* The same program, given several status files made of the blocks of FewBlockIds.
process_open_few == open(FewStatusFiles)

NextFiles ==
    process_open_few \/ process_line \/ process_eof \/ process_print \/ main_exit

SpecFiles == Init /\ [][NextFiles]_vars

(***************************************************************************)
(* The tokenizer on its own: interpret_line applied to one input line.     *)
(***************************************************************************)
Trimmed(S) == {s \in S : s = <<>> \/ (s[1] \notin Whitespace /\ s[Len(s)] \notin Whitespace)}

RawChars == {"a", "=", ";", "\"", " "}
RawLines == SeqsUpTo(RawChars, MaxRawLen)

TokKeys == SeqsUpTo({"K"}, MaxKeyLen) \ {<<>>}
TokValues == Trimmed(SeqsUpTo({"v", "\"", " "}, MaxValLen))
TokComments == Trimmed(SeqsUpTo({"c", "\"", " ", "*"}, MaxValLen))

\* the three valid shapes, spaced as the status files are (w) or not at all
Sp(w) == IF w THEN <<" ">> ELSE <<>>
ShapeKVC(K, V, C, w) ==
    Sp(w) \o Sp(w) \o K \o Sp(w) \o <<"=">> \o Sp(w) \o V \o <<";">> \o Sp(w)
        \o <<"/", "*">> \o Sp(w) \o C \o Sp(w) \o <<"*", "/">> \o <<"\n">>
ShapeKVSemi(K, V, w) ==
    Sp(w) \o Sp(w) \o K \o Sp(w) \o <<"=">> \o Sp(w) \o V \o <<";">> \o <<"\n">>
ShapeKV(K, V, w) ==
    Sp(w) \o Sp(w) \o K \o Sp(w) \o <<"=">> \o Sp(w) \o V \o <<"\n">>

ShapedLines ==
    {ShapeKVC(K, V, C, w) : K \in TokKeys, V \in TokValues, C \in TokComments, w \in BOOLEAN}
    \cup {ShapeKVSemi(K, V, w) : K \in TokKeys, V \in TokValues, w \in BOOLEAN}
    \cup {ShapeKV(K, V, w) : K \in TokKeys, V \in TokValues, w \in BOOLEAN}

TokInit ==
    /\ line \in RawLines \cup ShapedLines
    /\ pc = "tok"
    /\ nfiles = 0
    /\ summary = FALSE
    /\ fileIdx = 0
    /\ sfile = <<>>
    /\ lineno = 0
    /\ line_parsed = None
    /\ contents = <<>>
    /\ store_contents = TRUE
    /\ dag_status = None
    /\ node_statuses = <<>>
    /\ status_end = None
    /\ stdout = <<>>
    /\ exc = None
    /\ closed = <<>>

TokInterpret ==
    /\ pc = "tok"
    /\ LET r == interpret_line(line)
       IN  \/ /\ ~Raised(r)
              /\ line_parsed' = r.ret
              /\ exc' = None
           \/ /\ Raised(r)
              /\ line_parsed' = None
              /\ exc' = r.exc
    /\ pc' = "tokdone"
    /\ UNCHANGED <<nfiles, summary, fileIdx, sfile, lineno, line, contents,
                   store_contents, dag_status, node_statuses, status_end, stdout, closed>>

TokNext == TokInterpret

SpecTok == TokInit /\ [][TokNext]_vars

(***************************************************************************)
(* Properties of the tokenizer, checked under SpecTok.                     *)
(***************************************************************************)
Tokenized == pc = "tokdone"

FirstIndex(s, ch) == CHOOSE j \in DOMAIN s : s[j] = ch /\ \A k \in 1..(j - 1) : s[k] # ch
Count(s, ch) == Cardinality({i \in DOMAIN s : s[i] = ch})
Unquote(s) == SelectSeq(s, LAMBDA c : c # "\"")
Before(s, ch) == IF contains(s, ch) THEN SubSeq(s, 1, FirstIndex(s, ch) - 1) ELSE s
After(s, ch) == IF contains(s, ch) THEN SubSeq(s, FirstIndex(s, ch) + 1, Len(s)) ELSE <<>>

\* C6: tokenizing a line that holds no "=" fails with a MalformedLineError, never
\* with an index-out-of-range failure.  (The claim as stated; the code raises
\* IndexError at line 236.)
C6_NoEqualsIsMalformedLineError ==
    (Tokenized /\ ~contains(line, "=")) =>
        (exc # None /\ exc[1].type = "MalformedLineError")

\* C7: the line is split on the first "=" only: the key is the trimmed text before
\* it, and value and comment are derived from the whole text after it, so nothing
\* after a second "=" is lost.  (The claim as stated; the code splits on every "=".)
C7_SplitOnFirstEqualsOnly ==
    (Tokenized /\ contains(line, "=")) =>
        LET raw == strip(line)
            rest == After(raw, "=")
            segs == split(rest, ";")
            other == [i \in DOMAIN segs |-> strip(segs[i])]
        IN  line_parsed = <<Line(strip(Before(raw, "=")),
                                 strip_doublequotes(other[1]),
                                 comment_of(other))>>

\* C8 as stated: when the text after "=" holds more than one ";", value is the first
\* segment without its double quotes and comment is the second segment without comment
\* markers and double quotes, trimmed; only what follows the second ";" is discarded.
C8_SecondSegmentIsComment ==
    (Tokenized /\ Count(line, "=") = 1 /\ Count(After(line, "="), ";") > 1) =>
        LET rest == After(strip(line), "=")
            seg1 == Before(rest, ";")
            seg2 == Before(After(rest, ";"), ";")
        IN  line_parsed = <<Line(strip(Before(strip(line), "=")),
                                 Unquote(strip(seg1)),
                                 Unquote(strip_comments(seg2)))>>

\* C8 as amended: when the text the tokenizer takes as following "=" (from the first
\* "=" to the next "=" or the end of the line) holds more than one ";", value is the
\* first segment, trimmed, without its double quotes, and comment is the empty string:
\* everything after the first ";" is discarded.
C8_MoreThanTwoSegmentsNoComment ==
    (Tokenized /\ contains(line, "=")
        /\ Count(Before(After(strip(line), "="), "="), ";") > 1) =>
        LET rest == Before(After(strip(line), "="), "=")
        IN  /\ line_parsed # None
            /\ line_parsed[1].value = Unquote(strip(Before(rest, ";")))
            /\ line_parsed[1].comment = <<>>

\* C8 witness: "a=a;a;" has been tokenized and its second segment is not the comment.
C8_Witness ==
    /\ Tokenized
    /\ line = <<"a", "=", "a", ";", "a", ";">>
    /\ line_parsed = <<Line(<<"a">>, <<"a">>, <<>>)>>

\* C9: for every line "K = V; /* C */" the tokenizer returns key K, value V without
\* its double quotes and comment C without the comment markers and the double quotes
\* (trimmed before the quotes are removed, as section 4.1 orders the steps); for
\* every line "K = V;" or "K = V" the comment is the empty string.
C9_ShapedLineFields ==
    (Tokenized /\ line \in ShapedLines) =>
        LET K == strip(Before(line, "="))
            rest == After(line, "=")
            V == strip(Before(rest, ";"))
            tail == strip(After(rest, ";"))
            C == strip(SubSeq(tail, 3, Len(tail) - 2))
        IN  line_parsed = <<Line(K, Unquote(V), Unquote(C))>>

\* C9 witness: a line with a quoted value and a comment that opens with a quote and a
\* blank has been tokenized.
C9_Witness ==
    /\ Tokenized
    /\ line = ShapeKVC(<<"K">>, <<"\"", "v", "\"">>, <<"\"", " ", "c">>, TRUE)
    /\ line_parsed = <<Line(<<"K">>, <<"v">>, <<" ", "c">>)>>

(***************************************************************************)
(* Properties of the parser and of the program, checked under Spec.        *)
(***************************************************************************)
Range(f) == {f[i] : i \in DOMAIN f}

\* the for loop is about to read a line that closes a block
ClosesBlock ==
    /\ pc = "reading"
    /\ lineno < NumLines(sfile)
    /\ LET l == LineAt(sfile, lineno + 1)
       IN  l[1] = "]" /\ \A i \in DOMAIN l : l[i] # "}"

KnownTypes == {s_DagStatus, s_NodeStatus, s_StatusEnd}
TypeUnknown(c) == s_Type \notin DOMAIN c \/ c[s_Type].value \notin KnownTypes

RequiredKeys(type) ==
    IF type = s_DagStatus THEN DagStatusKeys
    ELSE IF type = s_NodeStatus THEN NodeStatusKeys
    ELSE StatusEndKeys

\* the required keys of the block's record type that contents lacks
MissingKeys(c) ==
    IF TypeUnknown(c) THEN {}
    ELSE {k \in {kl[1] : kl \in Range(RequiredKeys(c[s_Type].value))} : k \notin DOMAIN c}

NothingStored == UNCHANGED <<dag_status, node_statuses, status_end, closed>>

\* C1 as stated: a block that closes with no Type key, or with a Type other than
\* DagStatus, NodeStatus and StatusEnd, fails the file with one error kind that
\* carries the accumulated field mapping.
C1_UnknownTypeErrorCarriesMapping ==
    [][(ClosesBlock /\ TypeUnknown(contents)) =>
          /\ pc' = "crashed"
          /\ exc' # None
          /\ exc'[1].type = "KeyError"
          /\ \E i \in DOMAIN exc'[1].args : exc'[1].args[i] = contents]_vars

\* C1 as amended: such a block fails the file with a KeyError in both cases, and the
\* error carries only the name of the absent key, 'Type', or the message 'Unknown
\* block Type': the accumulated mapping is not carried.  No record is stored.
C1_UnknownTypeIsKeyError ==
    [][(ClosesBlock /\ TypeUnknown(contents)) =>
          /\ pc' = "crashed"
          /\ exc' # None
          /\ exc'[1].type = "KeyError"
          /\ exc'[1].args = IF s_Type \in DOMAIN contents
                            THEN <<s_UnknownBlockType>> ELSE <<s_Type>>
          /\ contents' = contents
          /\ NothingStored]_vars

\* C1 witness: a block with a Node field and no Type field has closed.
C1_Witness ==
    /\ pc = "crashed"
    /\ exc = <<KeyError(s_Type, 184)>>
    /\ DOMAIN contents = {s_Node}

\* no block of Type DagStatus has closed in this file
NoDagStatusClosed == \A i \in DOMAIN closed : closed[i][s_Type].value # s_DagStatus

\* C2: when every line of a file has been consumed and no block of Type DagStatus
\* ever closed, processing of the file fails (MissingDagStatusError: the
\* AttributeError of line 222) and print_table is not called: nothing is printed.
C2_NoDagStatusFailsBeforeRendering ==
    [][(pc = "reading" /\ lineno = NumLines(sfile) /\ NoDagStatusClosed) =>
          /\ pc' = "crashed"
          /\ exc' = <<AttributeError(222)>>
          /\ stdout' = stdout]_vars

\* C2 witness: a file that holds blocks, none of them a DagStatus, has failed at its end.
C2_Witness ==
    /\ pc = "crashed"
    /\ exc = <<AttributeError(222)>>
    /\ closed # <<>>
    /\ NoDagStatusClosed

\* C3: a failure while processing one file is confined to that file: when the
\* program ends, every file of the command line has been processed.  (The claim as
\* stated; the loop of line 349 catches nothing.)
C3_FailureConfinedToFile == pc \in {"done", "crashed"} => fileIdx = nfiles

\* C4: for a file whose processing fails, no line of the table has been printed.
\* (The claim as stated; print_table fails at line 330 after the rows and the summary.)
C4_NoTableForFailedFile ==
    pc = "crashed" =>
        \A i \in DOMAIN stdout : stdout[i].file = fileIdx => stdout[i].kind = "filename"

\* C5 as stated: a block of a known Type that closes without a key its record type
\* requires fails with an error that names the record type and the missing key, and
\* no record is stored or appended.
C5_MissingFieldNamesTypeAndKey ==
    [][(ClosesBlock /\ MissingKeys(contents) # {}) =>
          /\ pc' = "crashed"
          /\ exc' # None
          /\ exc'[1].type = "KeyError"
          /\ contents[s_Type].value \in Range(exc'[1].args)
          /\ Range(exc'[1].args) \cap MissingKeys(contents) # {}
          /\ NothingStored]_vars

\* C5 as amended: such a block fails with a KeyError whose only argument is the
\* absent key that comes first in the order of the constructor's arguments; the
\* record type is not named.  No record is stored or appended.
C5_MissingFieldIsKeyErrorOfFirstKey ==
    [][(ClosesBlock /\ MissingKeys(contents) # {}) =>
          /\ pc' = "crashed"
          /\ exc' # None
          /\ exc'[1].type = "KeyError"
          /\ LET keys == RequiredKeys(contents[s_Type].value)
             IN  \E i \in DOMAIN keys :
                    /\ exc'[1].args = <<keys[i][1]>>
                    /\ keys[i][1] \in MissingKeys(contents)
                    /\ \A j \in 1..(i - 1) : keys[j][1] \notin MissingKeys(contents)
          /\ NothingStored]_vars

\* C5 witness: a DagStatus block without NodesTotal (and without later keys) has closed.
C5_Witness ==
    /\ pc = "crashed"
    /\ exc = <<KeyError(s_NodesTotal, 187)>>
    /\ s_Type \in DOMAIN contents
    /\ contents[s_Type].value = s_DagStatus
    /\ s_NodesPre \notin DOMAIN contents

\* the mappings of the closed blocks of Type NodeStatus, in the order they closed
NodeCloses == SelectSeq(closed, LAMBDA c : c[s_Type].value = s_NodeStatus)

\* C10: the node list holds exactly one record per closed block of Type NodeStatus,
\* in the order the blocks closed, and when parsing is complete the DagStatus
\* object's node_statuses is that list, wherever the DagStatus block stood.
C10_NodeListIsClosedNodeBlocks ==
    /\ Len(node_statuses) = Len(NodeCloses)
    /\ \A i \in DOMAIN node_statuses :
          /\ node_statuses[i].node = Unquote(NodeCloses[i][s_Node].value)
          /\ node_statuses[i].node_status = Unquote(NodeCloses[i][s_NodeStatus].comment)
          /\ node_statuses[i].status_details =
                Unquote(NodeCloses[i][s_StatusDetails].value)
    /\ pc = "render" => dag_status # None /\ dag_status[1].node_statuses = node_statuses

\* C10 witness: a NodeStatus block closed before the DagStatus block, the file is
\* exhausted and the list has been attached.
C10_Witness ==
    /\ pc = "render"
    /\ Len(closed) = 2
    /\ closed[1][s_Type].value = s_NodeStatus
    /\ dag_status[1].node_statuses = node_statuses

(***************************************************************************)
(* Properties of the parser and of the program, checked under SpecEdge.    *)
(***************************************************************************)
\* the mappings of the closed blocks of the given Type, in the order they closed
ClosesOf(type) == SelectSeq(closed, LAMBDA c : c[s_Type].value = type)

Last(seq) == seq[Len(seq)]

\* C11: there is never more than one DagStatus object nor more than one StatusEnd
\* object; when no block of the Type has closed there is none, and otherwise the
\* object is the one constructed from the mapping of the last block of that Type that
\* closed: a later block replaces an earlier one.
C11_LastBlockWins ==
    /\ Len(dag_status) <= 1
    /\ Len(status_end) <= 1
    /\ IF ClosesOf(s_DagStatus) = <<>> THEN dag_status = None
       ELSE /\ dag_status # None
            /\ [dag_status[1] EXCEPT !.node_statuses = <<>>]
                  = DagStatus(DagStatusArgs(Last(ClosesOf(s_DagStatus)))).ret[1]
    /\ IF ClosesOf(s_StatusEnd) = <<>> THEN status_end = None
       ELSE status_end = StatusEnd(StatusEndArgs(Last(ClosesOf(s_StatusEnd)))).ret

\* C11 witness: two DagStatus blocks with different fields have closed without error,
\* and the object holds the counters of the second.
C11_Witness ==
    /\ exc = None
    /\ Len(ClosesOf(s_DagStatus)) = 2
    /\ closed[1][s_NodesTotal].value = <<"1", "0">>
    /\ closed[2][s_NodesTotal].value = <<"3">>
    /\ dag_status[1].nodes_total = 3

\* the line closes a block: it begins with "]" and holds no "}"
IsCloseLine(l) == l[1] = "]" /\ \A i \in DOMAIN l : l[i] # "}"

\* the number of the last line among the first n of f that closes a block, or 0
PrevClose(f, n) ==
    LET closes == {i \in 1..n : IsCloseLine(LineAt(f, i))}
    IN  IF closes = {} THEN 0 ELSE CHOOSE i \in closes : \A j \in closes : j <= i

\* every entry of the mapping is the tokenization of a line read since the last block
\* close
ContentsSinceLastClose ==
    \A k \in DOMAIN contents :
        \E i \in (PrevClose(sfile, lineno) + 1)..lineno :
            /\ ~Raised(InterpretedLine[LineAt(sfile, i)])
            /\ InterpretedLine[LineAt(sfile, i)].ret[1] = contents[k]
            /\ contents[k].key = k

\* C12: a block close that dispatches successfully leaves the mapping empty and the
\* flag off, and at every moment the mapping holds only tokenizations of lines read
\* since the last block close: a record is never built from a field of a block that
\* closed earlier.
C12_MappingResetAtClose ==
    /\ [][(ClosesBlock /\ pc' # "crashed") =>
             (contents' = <<>> /\ store_contents' = FALSE)]_vars
    /\ []ContentsSinceLastClose

\* C12 witness: a DagStatus block has closed, the fields of the next block are being
\* read, and the mapping holds none of the counters of the DagStatus block.
C12_Witness ==
    /\ pc = "reading"
    /\ Len(closed) = 1
    /\ s_NodesTotal \in DOMAIN closed[1]
    /\ contents # <<>>
    /\ s_NodesTotal \notin DOMAIN contents

\* the exception was raised inside print_table (lines 245-332)
InPrintTable(e) == e.at >= 245 /\ e.at <= 332

\* C13: a file that holds a DagStatus block and no StatusEnd block parses with the
\* end marker absent, and rendering it completes without error in summary and in full
\* mode, provided the size of the terminal can be read.  (The claim as stated; in full
\* mode print_table fails at line 330.)  Checked under Spec.
C13_NoStatusEndRendersCleanly ==
    (/\ ClosesOf(s_DagStatus) # <<>>
     /\ ClosesOf(s_StatusEnd) = <<>>
     /\ status_end = None
     /\ exc # None
     /\ InPrintTable(exc[1])) => exc[1].at = 302

\* the mapping is that of a complete DagStatus block whose NodesTotal is 0
ZeroTotal(c) ==
    /\ ~TypeUnknown(c)
    /\ c[s_Type].value = s_DagStatus
    /\ MissingKeys(c) = {}
    /\ c[s_NodesTotal].value = <<"0">>

\* C14: a DagStatus block whose NodesTotal is 0 yields no DagStatus object: its close
\* fails with a division-by-zero error (ZeroDivisionError, line 105); the failure is
\* confined to that file, so that when the program ends every file of the command
\* line has been processed.  (The claim as stated; the error leaves process() and
\* the loop of line 349, and ends the program.)  Checked under SpecFiles.
C14_ZeroTotalFailureConfinedToFile ==
    /\ [][(ClosesBlock /\ ZeroTotal(contents)) =>
             (exc' = <<ZeroDivisionError(105)>> /\ dag_status' = dag_status)]_vars
    /\ []((exc = <<ZeroDivisionError(105)>> /\ pc \in {"done", "crashed"})
             => fileIdx = nfiles)

\* the integer counters of a DagStatus object and the keys they come from
DagCounters ==
    <<<<"nodes_total", s_NodesTotal>>, <<"nodes_done", s_NodesDone>>,
      <<"nodes_pre", s_NodesPre>>, <<"nodes_queued", s_NodesQueued>>,
      <<"nodes_post", s_NodesPost>>, <<"nodes_ready", s_NodesReady>>,
      <<"nodes_unready", s_NodesUnready>>, <<"nodes_failed", s_NodesFailed>>,
      <<"job_procs_held", s_JobProcsHeld>>, <<"job_procs_idle", s_JobProcsIdle>>>>

\* C15: every field of a record comes from the sub-field the field mapping names:
\* timestamp and dag_status of the DagStatus object, node_status of a NodeStatus
\* object and end_time and next_update of the StatusEnd object are the comment of
\* their line (without double quotes); node, status_details and the integer counters
\* are the value of their line.  A line without a comment gives the empty string.
C15_FieldsFromNamedSubfield ==
    /\ dag_status # None =>
          LET c == Last(ClosesOf(s_DagStatus))
          IN  /\ dag_status[1].timestamp = c[s_Timestamp].comment
              /\ dag_status[1].dag_status = Unquote(c[s_DagStatus].comment)
              /\ \A i \in DOMAIN DagCounters :
                    dag_status[1][DagCounters[i][1]] = int(c[DagCounters[i][2]].value)
    /\ \A i \in DOMAIN node_statuses :
          LET c == ClosesOf(s_NodeStatus)[i]
          IN  /\ node_statuses[i].node = Unquote(c[s_Node].value)
              /\ node_statuses[i].node_status = Unquote(c[s_NodeStatus].comment)
              /\ node_statuses[i].status_details = Unquote(c[s_StatusDetails].value)
              /\ node_statuses[i].retry_count = int(c[s_RetryCount].value)
              /\ node_statuses[i].job_procs_queued = int(c[s_JobProcsQueued].value)
              /\ node_statuses[i].job_procs_held = int(c[s_JobProcsHeld].value)
    /\ status_end # None =>
          LET c == Last(ClosesOf(s_StatusEnd))
          IN  /\ status_end[1].end_time = Unquote(c[s_EndTime].comment)
              /\ status_end[1].next_update = Unquote(c[s_NextUpdate].comment)

\* C15 witness: a NodeStatus block whose NodeStatus line reads "NodeStatus = 3;" has
\* closed, and the node_status of its record is the empty string, not "3".
C15_Witness ==
    /\ Len(node_statuses) = 1
    /\ closed[1][s_NodeStatus].value = <<"3">>
    /\ closed[1][s_NodeStatus].comment = <<>>
    /\ node_statuses[1].node = <<"D">>
    /\ node_statuses[1].node_status = <<>>

\* the number of closed NodeStatus blocks whose NodeStatus comment is exactly
\* STATUS_SUBMITTED and whose StatusDetails value is exactly not_idle
RunningNodes ==
    Cardinality({i \in DOMAIN ClosesOf(s_NodeStatus) :
        /\ Unquote(ClosesOf(s_NodeStatus)[i][s_NodeStatus].comment) = s_STATUS_SUBMITTED
        /\ Unquote(ClosesOf(s_NodeStatus)[i][s_StatusDetails].value) = s_not_idle})

\* p is 100 * n / d written with one decimal place: the tenths t that p shows are
\* within half a tenth of 1000 * n / d
IsPercent(p, n, d) ==
    \E t \in {(1000 * n) \div d, (1000 * n) \div d + 1} :
        /\ p = str(t \div 10) \o <<".">> \o str(t % 10)
        /\ 2 * Abs(1000 * n - t * d) <= d

\* C16: when the table is rendered, job_procs_running is the number of NodeStatus
\* blocks of the file whose record has node_status STATUS_SUBMITTED and
\* status_details not_idle, whether they closed before or after the DagStatus block,
\* and nodes_running_percent is 100 * job_procs_running / nodes_total with one
\* decimal place; the summary row that is printed shows the two.
C16_RunningCountAndPercent ==
    /\ pc = "render" =>
          /\ Len(dag_status[1].node_statuses) = Len(ClosesOf(s_NodeStatus))
          /\ job_procs_running(dag_status[1]) = RunningNodes
          /\ IsPercent(nodes_running_percent(dag_status[1]), RunningNodes,
                       dag_status[1].nodes_total)
    /\ \A i \in DOMAIN stdout :
          (stdout[i].file = fileIdx /\ stdout[i].kind = "summary_row") =>
              /\ stdout[i].data[6] = RunningNodes
              /\ IsPercent(stdout[i].data[7], RunningNodes, stdout[i].data[3])

\* C16 witness: a DagStatus block with NodesTotal = 10 closed first, a node that is
\* submitted and not idle closed after it, and the table is about to be rendered
\* with 1 running job, "10.0" percent.
C16_Witness ==
    /\ pc = "render"
    /\ Len(closed) = 2
    /\ closed[1][s_Type].value = s_DagStatus
    /\ dag_status[1].nodes_total = 10
    /\ job_procs_running(dag_status[1]) = 1
    /\ nodes_running_percent(dag_status[1]) = <<"1", "0", ".", "0">>

\* the line the for loop is about to read
NextLine == LineAt(sfile, lineno + 1)
Reading == pc = "reading" /\ lineno < NumLines(sfile)

\* the line begins with "[" or holds "}"
IsStartLine(l) == l[1] = "[" \/ \E i \in DOMAIN l : l[i] = "}"

\* the line holds "{", and neither begins with "[" or "]" nor holds "}"
IsStopLine(l) == ~IsStartLine(l) /\ l[1] # "]" /\ \E i \in DOMAIN l : l[i] = "{"

\* a line that holds "{" has been read and no line that begins with "[" or holds "}"
\* has been read since
InBraces ==
    \E j \in 1..lineno :
        /\ IsStopLine(LineAt(sfile, j))
        /\ \A i \in (j + 1)..lineno : ~IsStartLine(LineAt(sfile, i))

NotTokenized == UNCHANGED <<contents, line_parsed>>

\* C18: the lines are classified in a fixed order.  A line that begins with "[" or
\* holds "}" turns the flag on, is not tokenized and closes no block, even when it
\* begins with "]".  Any other line that begins with "]" closes the block.  Any other
\* line that holds "{" turns the flag off and is not tokenized, even when it has the
\* shape Key = value.  So a field line read after a "{" line and before the next "}"
\* or "[" line is dropped: it is not tokenized and enters no mapping.
C18_ClassificationPrecedence ==
    [][Reading =>
         /\ IsStartLine(NextLine) =>
               (store_contents' /\ NotTokenized /\ NothingStored /\ pc' = pc)
         /\ IsCloseLine(NextLine) =>
               \/ pc' = "crashed" /\ exc' # None /\ NothingStored
               \/ pc' = pc /\ closed' = Append(closed, contents) /\ contents' = <<>>
         /\ IsStopLine(NextLine) =>
               (~store_contents' /\ NotTokenized /\ NothingStored /\ pc' = pc)
         /\ (InBraces /\ ~IsStartLine(NextLine) /\ ~IsCloseLine(NextLine)) =>
               (NotTokenized /\ NothingStored /\ pc' = pc)]_vars

\* C18 witness: the block with "Macros = {", "RetryCount = 7;" and "] };" has closed
\* once, at its last line: the record has the RetryCount read before the "{" line,
\* and the mapping held the fields read after the "] };" line.
C18_Witness ==
    /\ Len(closed) = 1
    /\ Len(node_statuses) = 1
    /\ node_statuses[1].node = <<"D">>
    /\ node_statuses[1].retry_count = 0
    /\ s_JobProcsQueued \in DOMAIN closed[1]
    /\ <<"M", "a", "c", "r", "o", "s">> \notin DOMAIN closed[1]

\* the line is a boundary marker: it begins with "[" or "]", or holds "{" or "}"
IsBoundary(l) == IsStartLine(l) \/ IsStopLine(l) \/ l[1] = "]"

\* C19: while the flag is off, a line that is no boundary marker is ignored: it is
\* not tokenized, it changes neither the mapping, the flag, the node list nor either
\* single result, and it raises no error, even when it holds no "=".
C19_IgnoredOutsideBlock ==
    [][(Reading /\ ~store_contents /\ ~IsBoundary(NextLine)) =>
          /\ NotTokenized
          /\ NothingStored
          /\ UNCHANGED <<store_contents, exc, pc>>]_vars

\* C19 witness: the line "DAG status", which holds no "=", has been read outside any
\* block, and the file is still being read with nothing stored.
C19_Witness ==
    /\ pc = "reading"
    /\ line = StrayLines[1]
    /\ ~contains(line, "=")
    /\ ~store_contents
    /\ exc = None
    /\ contents = <<>>

\* every line of the file has been read
Exhausted == pc = "reading" /\ lineno = NumLines(sfile)

\* the last boundary marker read begins with "[" or holds "}": a block is open
BlockOpenAtEnd ==
    \E j \in 1..lineno :
        /\ IsStartLine(LineAt(sfile, j))
        /\ \A i \in (j + 1)..lineno : ~IsBoundary(LineAt(sfile, i))

\* C20 as stated: when the input is exhausted the flag is off and the mapping is
\* empty, for every file, also one that ends after a "[" or "}" line or after field
\* lines without a closing "]".
C20_OutsideBlockAtEndOfFile ==
    Exhausted => (~store_contents /\ contents = <<>>)

\* C20 as amended: when the input is exhausted the flag is on exactly if the last
\* boundary marker read was a "[" or "}" line, and the mapping still holds the fields
\* read since the last block close.  What is left is discarded: the end of the file
\* dispatches nothing, so the fields of an unclosed final block produce no record and
\* raise no error; the only failure at the end of a file is that of line 222.
C20_UnclosedBlockIsDiscarded ==
    /\ [](Exhausted => (store_contents <=> BlockOpenAtEnd))
    /\ []ContentsSinceLastClose
    /\ [][Exhausted =>
             /\ UNCHANGED <<node_statuses, status_end, closed, contents>>
             /\ \/ pc' = "render" /\ dag_status' = attach(dag_status, node_statuses).ret
                \/ /\ pc' = "crashed"
                   /\ exc' = <<AttributeError(222)>>
                   /\ dag_status' = dag_status]_vars

\* C20 witness: a file ended inside a block that opened after a DagStatus block
\* closed; the flag is on, the mapping holds the Type of the unclosed block, and the
\* table is about to be rendered with no node.
C20_Witness ==
    /\ pc = "render"
    /\ store_contents
    /\ s_Type \in DOMAIN contents
    /\ contents[s_Type].value = s_NodeStatus
    /\ Len(closed) = 1
    /\ node_statuses = <<>>

(***************************************************************************)
(* Properties of the program given several files, checked under SpecFiles. *)
(***************************************************************************)
\* the locals after each of the first n lines of f, when f is read on its own from
\* the start: element k + 1 is the locals after k lines
RECURSIVE Replay(_, _)
Replay(f, n) ==
    IF n = 0 THEN <<Fresh>>
    ELSE LET t == Replay(f, n - 1)
         IN  Append(t, IF t[n].exc # None THEN t[n] ELSE loop_body(t[n], LineAt(f, n)))

Replayed == Table([f \in FewStatusFiles |-> Replay(f, NumLines(f))])

\* the record set of f read on its own
RecordSet(f) ==
    LET st == Last(Replayed[f])
    IN  [dag_status |-> attach(st.dag_status, st.node_statuses).ret,
         node_statuses |-> st.node_statuses,
         status_end |-> st.status_end]

\* C17: what is parsed from a file depends on its lines only.  While a file is read,
\* the locals are those the same lines give when the file is read on its own, whatever
\* files came before it; once it is parsed, its record set is the one the file gives
\* on its own; and what is printed is printed file by file, each file's table ending
\* before the next file's name.
C17_RecordSetDependsOnFileOnly ==
    /\ pc = "reading" => Locals = Replayed[sfile][lineno + 1]
    /\ (pc \in {"render", "main", "done"} /\ fileIdx > 0) =>
          [dag_status |-> dag_status, node_statuses |-> node_statuses,
           status_end |-> status_end] = RecordSet(sfile)
    /\ \A i \in DOMAIN stdout :
          /\ i > 1 => stdout[i - 1].file <= stdout[i].file
          /\ (i > 1 /\ stdout[i].kind = "filename") =>
                stdout[i - 1] = [file |-> stdout[i].file - 1, kind |-> "rule",
                                 data |-> <<"~">>]

\* C17 witness: the first file held a running node and was rendered; the second file,
\* which holds no node, has been parsed after it, and its node list is empty.
C17_Witness ==
    /\ fileIdx = 2
    /\ pc = "render"
    /\ node_statuses = <<>>
    /\ job_procs_running(dag_status[1]) = 0
    /\ \E i \in DOMAIN stdout :
          stdout[i].file = 1 /\ stdout[i].kind = "summary_row" /\ stdout[i].data[6] = 1

=============================================================================
